---- MODULE Spec2Model ----
(***************************************************************************)
(* DayOfWeekSensor (airflow/sensors/weekday.py): a sensor that is built    *)
(* once from a weekday specification and two mode flags, and whose poke    *)
(* is then called repeatedly by the host.  poke reads the UTC clock for    *)
(* its log line and then decides on the logical date of its context or on  *)
(* a second reading of the clock.                                          *)
(*                                                                         *)
(* Strings are sequences of one-character strings so that str.upper() is   *)
(* computed; dates are proleptic Gregorian ordinals (date.toordinal()).    *)
(***************************************************************************)
EXTENDS Integers, Sequences, FiniteSets

VARIABLES
    status,                 \* "none" | "constructed" | "failed"
    week_day,               \* self.week_day: the specification as passed
    use_task_logical_date,  \* self.use_task_logical_date
    week_day_num,           \* self._week_day_num
    kwargs,                 \* the arguments the constructor was called with
    warnings,               \* number of RemovedInAirflow3Warning emitted
    error,                  \* "none" | "ConfigurationError"
    now,                    \* timezone.utcnow(), as the ordinal of its day
    pc,                     \* per worker: "idle" | "logged" | "returned" | "raised"
    context,                \* per worker: the context of its current poke call
    logged,                 \* per worker: the weekday name in its log line
    loggedAt,               \* per worker: the clock reading used for the log line
    decidedAt,              \* per worker: the clock value when the call decided
    result,                 \* per worker: the boolean its poke returned
    lastPoll                \* host loop: the day of its last finished poll

vars == <<status, week_day, use_task_logical_date, week_day_num, kwargs,
          warnings, error, now, pc, context, logged, loggedAt, decidedAt,
          result, lastPoll>>

sensor == <<status, week_day, use_task_logical_date, week_day_num>>

-----------------------------------------------------------------------------
(* Bounds *)

\* Day advances of the clock in Spec.
MaxDays == 2

\* Day advances of the clock in SpecWait.
MaxWaitDays == 7

Workers == {"w1", "w2"}

HostWorker == "w1"

-----------------------------------------------------------------------------
(* Strings and str.upper() *)

LowerCase ==
    <<"a","b","c","d","e","f","g","h","i","j","k","l","m",
      "n","o","p","q","r","s","t","u","v","w","x","y","z">>

UpperCase ==
    <<"A","B","C","D","E","F","G","H","I","J","K","L","M",
      "N","O","P","Q","R","S","T","U","V","W","X","Y","Z">>

UpperChar(c) ==
    IF \E i \in 1..Len(LowerCase) : LowerCase[i] = c
    THEN UpperCase[CHOOSE i \in 1..Len(LowerCase) : LowerCase[i] = c]
    ELSE c

upper(s) == [i \in 1..Len(s) |-> UpperChar(s[i])]

-----------------------------------------------------------------------------
(* airflow.utils.weekday.WeekDay: MONDAY = 1 .. SUNDAY = 7 *)

WeekDayNames ==
    << <<"M","O","N","D","A","Y">>,
       <<"T","U","E","S","D","A","Y">>,
       <<"W","E","D","N","E","S","D","A","Y">>,
       <<"T","H","U","R","S","D","A","Y">>,
       <<"F","R","I","D","A","Y">>,
       <<"S","A","T","U","R","D","A","Y">>,
       <<"S","U","N","D","A","Y">> >>

WeekDay == 1..Len(WeekDayNames)

\* WeekDay(n).name
WeekDayName(n) == WeekDayNames[n]

\* WeekDay[name]
get_weekday_number(s) ==
    CHOOSE n \in WeekDay : WeekDayNames[n] = upper(s)

IsWeekDayName(s) == \E n \in WeekDay : WeekDayNames[n] = upper(s)

(* A weekday specification is a tagged value:                              *)
(*   kind "str"      one name, in names                                    *)
(*   kind "strs"     a collection of names, in names                       *)
(*   kind "WeekDay"  one enum value, in days                               *)
(*   kind "WeekDays" a collection of enum values, in days                  *)
(*   kind "int"      a value of a wrong type                               *)
NameSpec(s)   == [kind |-> "str",      names |-> {s}, days |-> {}]
NamesSpec(S)  == [kind |-> "strs",     names |-> S,   days |-> {}]
EnumSpec(n)   == [kind |-> "WeekDay",  names |-> {},  days |-> {n}]
EnumsSpec(S)  == [kind |-> "WeekDays", names |-> {},  days |-> S]
WrongTypeSpec == [kind |-> "int",      names |-> {},  days |-> {}]
NoSpec        == [kind |-> "None",     names |-> {},  days |-> {}]

\* WeekDay.validate_week_day: the canonical set of ISO numbers, or a
\* configuration error for an unknown name, an empty set or a wrong type.
validate_week_day(wd) ==
    IF wd.kind \notin {"str", "strs", "WeekDay", "WeekDays"}
    THEN [raised |-> TRUE, nums |-> {}]
    ELSE IF wd.names = {} /\ wd.days = {}
    THEN [raised |-> TRUE, nums |-> {}]
    ELSE IF \E s \in wd.names : ~IsWeekDayName(s)
    THEN [raised |-> TRUE, nums |-> {}]
    ELSE IF \E d \in wd.days : d \notin WeekDay
    THEN [raised |-> TRUE, nums |-> {}]
    ELSE [raised |-> FALSE,
          nums |-> {get_weekday_number(s) : s \in wd.names} \cup wd.days]

-----------------------------------------------------------------------------
(* Dates: date.toordinal() and date.isoweekday() *)

IsLeap(y) == (y % 4 = 0) /\ ((y % 100 # 0) \/ (y % 400 = 0))

DaysBeforeYear(y) ==
    (y - 1) * 365 + ((y - 1) \div 4) - ((y - 1) \div 100) + ((y - 1) \div 400)

DaysBeforeMonth(y, m) ==
    <<0, 31, 59, 90, 120, 151, 181, 212, 243, 273, 304, 334>>[m]
    + (IF m > 2 /\ IsLeap(y) THEN 1 ELSE 0)

ymd2ord(y, m, d) == DaysBeforeYear(y) + DaysBeforeMonth(y, m) + d

\* self.toordinal() % 7 or 7
isoweekday(ord) == IF ord % 7 = 0 THEN 7 ELSE ord % 7

\* The execution day of the class docstring, a Saturday.
StartDay == ymd2ord(2018, 12, 22)

\* The day before it, a Friday.
DayBefore == ymd2ord(2018, 12, 21)

-----------------------------------------------------------------------------
(* Inputs *)

Saturday == <<"S","a","t","u","r","d","a","y">>
Sunday   == <<"S","u","n","d","a","y">>
FRIDAY   == <<"F","R","I","D","A","Y">>
friday   == <<"f","r","i","d","a","y">>
Funday   == <<"F","u","n","d","a","y">>

ValidSpecs ==
    { NameSpec(Saturday), NameSpec(FRIDAY), NameSpec(friday),
      NamesSpec({Saturday, Sunday}), EnumSpec(2), EnumsSpec({6, 7}) }

InvalidSpecs ==
    { NameSpec(Funday), NamesSpec({Saturday, Funday}), NamesSpec({}),
      EnumsSpec({}), WrongTypeSpec }

WeekDaySpecs == ValidSpecs \cup InvalidSpecs

NoLogicalDate == [has_logical_date |-> FALSE, logical_date |-> 0]

WithLogicalDate(d) == [has_logical_date |-> TRUE, logical_date |-> d]

Contexts == {NoLogicalDate, WithLogicalDate(DayBefore), WithLogicalDate(StartDay)}

-----------------------------------------------------------------------------
(* The sensor *)

\* Variant: the deprecated flag warns but is not copied to the new one.
SensorInitNoAlias(wd, ltd, ted) ==
    LET v == validate_week_day(wd) IN
    [ raised  |-> v.raised,
      week_day |-> wd,
      use_task_logical_date |-> ltd,
      week_day_num |-> v.nums,
      warned |-> IF ted THEN 1 ELSE 0 ]

\* Variant: the validation error is swallowed and the set left empty.
SensorInitLenient(wd, ltd, ted) ==
    LET v == validate_week_day(wd) IN
    [ raised  |-> FALSE,
      week_day |-> wd,
      use_task_logical_date |-> IF ted THEN ted ELSE ltd,
      week_day_num |-> v.nums,
      warned |-> IF ted THEN 1 ELSE 0 ]

\* Variant: the numbers are stored in date.weekday() numbering (Monday = 0).
SensorInitZeroBased(wd, ltd, ted) ==
    LET v == validate_week_day(wd) IN
    [ raised  |-> v.raised,
      week_day |-> wd,
      use_task_logical_date |-> IF ted THEN ted ELSE ltd,
      week_day_num |-> {n - 1 : n \in v.nums},
      warned |-> IF ted THEN 1 ELSE 0 ]

\* DayOfWeekSensor.__init__ as a function of its arguments.
SensorInit(wd, ltd, ted) ==
    LET v == validate_week_day(wd) IN
    [ raised  |-> v.raised,
      week_day |-> wd,
      use_task_logical_date |-> IF ted THEN ted ELSE ltd,
      week_day_num |-> v.nums,
      warned |-> IF ted THEN 1 ELSE 0 ]

\* Variant: the log line names the weekday of the logical date when there is one.
LogTodayLogical(ctx, clk) ==
    IF ctx.has_logical_date
    THEN WeekDayName(isoweekday(ctx.logical_date))
    ELSE WeekDayName(isoweekday(clk))

\* The log line's "Today is %s": WeekDay(timezone.utcnow().isoweekday()).name
LogToday(ctx, clk) == WeekDayName(isoweekday(clk))

\* Variant: the logical date is matched by date.weekday() (Monday = 0).
DecideLogicalWeekday(flag, nums, ctx, clk) ==
    IF flag
    THEN IF ctx.has_logical_date
         THEN [raised |-> FALSE,
               value |-> (isoweekday(ctx.logical_date) - 1) \in nums]
         ELSE [raised |-> TRUE,  value |-> FALSE]
    ELSE [raised |-> FALSE, value |-> isoweekday(clk) \in nums]

\* Variant: the clock is matched by date.weekday() (Monday = 0).
DecideClockWeekday(flag, nums, ctx, clk) ==
    IF flag
    THEN IF ctx.has_logical_date
         THEN [raised |-> FALSE, value |-> isoweekday(ctx.logical_date) \in nums]
         ELSE [raised |-> TRUE,  value |-> FALSE]
    ELSE [raised |-> FALSE, value |-> (isoweekday(clk) - 1) \in nums]

\* Variant: the two branches of the if are exchanged.
DecideSwapped(flag, nums, ctx, clk) ==
    IF ~flag
    THEN IF ctx.has_logical_date
         THEN [raised |-> FALSE, value |-> isoweekday(ctx.logical_date) \in nums]
         ELSE [raised |-> TRUE,  value |-> FALSE]
    ELSE [raised |-> FALSE, value |-> isoweekday(clk) \in nums]

\* Variant: context['logical_date'] is looked up before the if.
DecideEagerLookup(flag, nums, ctx, clk) ==
    IF ~ctx.has_logical_date
    THEN [raised |-> TRUE, value |-> FALSE]
    ELSE IF flag
    THEN [raised |-> FALSE, value |-> isoweekday(ctx.logical_date) \in nums]
    ELSE [raised |-> FALSE, value |-> isoweekday(clk) \in nums]

\* Variant: both branches read the clock.
DecideAlwaysClock(flag, nums, ctx, clk) ==
    IF flag /\ ~ctx.has_logical_date
    THEN [raised |-> TRUE,  value |-> FALSE]
    ELSE [raised |-> FALSE, value |-> isoweekday(clk) \in nums]

\* The return statement of poke: raised stands for the KeyError of
\* context['logical_date'] on a context without that key.
Decide(flag, nums, ctx, clk) ==
    IF flag
    THEN IF ctx.has_logical_date
         THEN [raised |-> FALSE, value |-> isoweekday(ctx.logical_date) \in nums]
         ELSE [raised |-> TRUE,  value |-> FALSE]
    ELSE [raised |-> FALSE, value |-> isoweekday(clk) \in nums]

Unpoked == [w \in Workers |-> "idle"]

Init ==
    /\ status = "none"
    /\ week_day = NoSpec
    /\ use_task_logical_date = FALSE
    /\ week_day_num = {}
    /\ kwargs = [week_day |-> NoSpec, use_task_logical_date |-> FALSE,
                 use_task_execution_day |-> FALSE]
    /\ warnings = 0
    /\ error = "none"
    /\ now = StartDay
    /\ pc = Unpoked
    /\ context = [w \in Workers |-> NoLogicalDate]
    /\ logged = [w \in Workers |-> <<>>]
    /\ loggedAt = [w \in Workers |-> 0]
    /\ decidedAt = [w \in Workers |-> 0]
    /\ result = [w \in Workers |-> FALSE]
    /\ lastPoll = 0

\* DayOfWeekSensor(week_day=wd, use_task_logical_date=ltd,
\*                 use_task_execution_day=ted)
Construct(wd, ltd, ted) ==
    LET s == SensorInit(wd, ltd, ted) IN
    /\ status = "none"
    /\ kwargs' = [week_day |-> wd, use_task_logical_date |-> ltd,
                  use_task_execution_day |-> ted]
    /\ warnings' = warnings + s.warned
    /\ IF s.raised
       THEN /\ status' = "failed"
            /\ error' = "ConfigurationError"
            /\ UNCHANGED <<week_day, use_task_logical_date, week_day_num>>
       ELSE /\ status' = "constructed"
            /\ week_day' = s.week_day
            /\ use_task_logical_date' = s.use_task_logical_date
            /\ week_day_num' = s.week_day_num
            /\ UNCHANGED error
    /\ UNCHANGED <<now, pc, context, logged, loggedAt, decidedAt, result, lastPoll>>

\* poke, first half: the self.log.info call with its clock reading.
PokeLog(w, ctx) ==
    /\ status = "constructed"
    /\ pc[w] # "logged"
    /\ pc' = [pc EXCEPT ![w] = "logged"]
    /\ context' = [context EXCEPT ![w] = ctx]
    /\ logged' = [logged EXCEPT ![w] = LogToday(ctx, now)]
    /\ loggedAt' = [loggedAt EXCEPT ![w] = now]
    /\ decidedAt' = [decidedAt EXCEPT ![w] = 0]
    /\ result' = [result EXCEPT ![w] = FALSE]
    /\ UNCHANGED <<status, week_day, use_task_logical_date, week_day_num,
                   kwargs, warnings, error, now>>

\* Variant: poke strikes today's weekday from the stored set when it returns.
PokeReturnMutating(w) ==
    LET d == Decide(use_task_logical_date, week_day_num, context[w], now) IN
    /\ pc[w] = "logged"
    /\ pc' = [pc EXCEPT ![w] = IF d.raised THEN "raised" ELSE "returned"]
    /\ result' = [result EXCEPT ![w] = d.value]
    /\ decidedAt' = [decidedAt EXCEPT ![w] = now]
    /\ week_day_num' = week_day_num \ {isoweekday(now)}
    /\ UNCHANGED <<status, week_day, use_task_logical_date,
                   kwargs, warnings, error, now, context, logged, loggedAt>>

\* poke, second half: the if / return with its own clock reading.
PokeReturn(w) ==
    LET d == Decide(use_task_logical_date, week_day_num, context[w], now) IN
    /\ pc[w] = "logged"
    /\ pc' = [pc EXCEPT ![w] = IF d.raised THEN "raised" ELSE "returned"]
    /\ result' = [result EXCEPT ![w] = d.value]
    /\ decidedAt' = [decidedAt EXCEPT ![w] = now]
    /\ UNCHANGED <<status, week_day, use_task_logical_date, week_day_num,
                   kwargs, warnings, error, now, context, logged, loggedAt>>

\* The clock passes midnight UTC.
Advance(maxDays) ==
    /\ now < StartDay + maxDays
    /\ now' = now + 1
    /\ UNCHANGED <<status, week_day, use_task_logical_date, week_day_num,
                   kwargs, warnings, error, pc, context, logged, loggedAt,
                   decidedAt, result>>

-----------------------------------------------------------------------------
(* Spec: one sensor, poked by several workers with arbitrary contexts *)

New ==
    \E wd \in WeekDaySpecs, ltd \in BOOLEAN, ted \in BOOLEAN :
        Construct(wd, ltd, ted)

Poke ==
    \E w \in Workers, ctx \in Contexts :
        PokeLog(w, ctx) /\ UNCHANGED lastPoll

Return ==
    \E w \in Workers : PokeReturn(w) /\ UNCHANGED lastPoll

Tick == Advance(MaxDays) /\ UNCHANGED lastPoll

Next == New \/ Poke \/ Return \/ Tick

Spec == Init /\ [][Next]_vars

-----------------------------------------------------------------------------
(* SpecWait: the host's loop around one task run.  The sensor is built,    *)
(* the run's context is fixed, and the host polls at least once a day      *)
(* until poke returns true or raises.                                      *)

Succeeded == pc[HostWorker] = "returned" /\ result[HostWorker]

Failed == pc[HostWorker] = "raised"

InitWait ==
    /\ \E wd \in ValidSpecs, ltd \in BOOLEAN, ted \in BOOLEAN :
          LET s == SensorInit(wd, ltd, ted) IN
          /\ ~s.raised
          /\ status = "constructed"
          /\ week_day = s.week_day
          /\ use_task_logical_date = s.use_task_logical_date
          /\ week_day_num = s.week_day_num
          /\ kwargs = [week_day |-> wd, use_task_logical_date |-> ltd,
                       use_task_execution_day |-> ted]
          /\ warnings = s.warned
    /\ error = "none"
    /\ now = StartDay
    /\ pc = Unpoked
    /\ context \in {[w \in Workers |-> c] : c \in Contexts}
    /\ logged = [w \in Workers |-> <<>>]
    /\ loggedAt = [w \in Workers |-> 0]
    /\ decidedAt = [w \in Workers |-> 0]
    /\ result = [w \in Workers |-> FALSE]
    /\ lastPoll = 0

HostPoke ==
    /\ ~Succeeded
    /\ ~Failed
    /\ PokeLog(HostWorker, context[HostWorker])
    /\ UNCHANGED lastPoll

HostReturn ==
    /\ PokeReturn(HostWorker)
    /\ lastPoll' = now

HostTick ==
    /\ Succeeded \/ Failed \/ lastPoll = now
    /\ Advance(MaxWaitDays)
    /\ UNCHANGED lastPoll

NextWait == HostPoke \/ HostReturn \/ HostTick

SpecWait ==
    /\ InitWait
    /\ [][NextWait]_vars
    /\ WF_vars(HostPoke)
    /\ WF_vars(HostReturn)
    /\ WF_vars(HostTick)

-----------------------------------------------------------------------------
(* Properties *)

Constructed == status = "constructed"

Returned(w) == pc[w] = "returned"

\* The clock values either specification can reach.
Clock == StartDay .. (StartDay + MaxWaitDays)

\* The date a finished call decided on.
ReferenceDate(w) ==
    IF use_task_logical_date THEN context[w].logical_date ELSE decidedAt[w]

\* The ISO numbers the valid specifications name, written out.
CanonicalNums(wd) ==
    CASE wd = NameSpec(Saturday)             -> {6}
      [] wd = NameSpec(FRIDAY)               -> {5}
      [] wd = NameSpec(friday)               -> {5}
      [] wd = NamesSpec({Saturday, Sunday})  -> {6, 7}
      [] wd = EnumSpec(2)                    -> {2}
      [] wd = EnumsSpec({6, 7})              -> {6, 7}

(* C1: in logical-date mode a poke whose context has logical date D        *)
(* returns true iff the ISO weekday of D is in the weekday set computed at *)
(* construction; with {SATURDAY, SUNDAY}, 2018-12-22 gives true and        *)
(* 2018-12-21 gives false.                                                 *)
C1_LogicalDateDecides ==
    (Constructed /\ use_task_logical_date) =>
        \A w \in Workers :
            (Returned(w) /\ context[w].has_logical_date) =>
                /\ result[w] = (isoweekday(context[w].logical_date) \in week_day_num)
                /\ (week_day_num = {6, 7}
                    /\ context[w].logical_date = ymd2ord(2018, 12, 22))
                       => result[w] = TRUE
                /\ (week_day_num = {6, 7}
                    /\ context[w].logical_date = ymd2ord(2018, 12, 21))
                       => result[w] = FALSE

C1_Witness ==
    /\ Constructed /\ use_task_logical_date /\ week_day_num = {6, 7}
    /\ Returned("w1") /\ context["w1"].logical_date = ymd2ord(2018, 12, 22)
    /\ result["w1"]
    /\ Returned("w2") /\ context["w2"].logical_date = ymd2ord(2018, 12, 21)
    /\ ~result["w2"]

(* C2: the mode flag alone selects the date source: with the flag false a  *)
(* poke returns true iff the ISO weekday of the clock is in the set,       *)
(* whatever the context; with the flag true the outcome is that of the     *)
(* context's logical date, whatever the clock; the membership test is the  *)
(* same in both modes.                                                     *)
C2_FlagSelectsSource ==
    Constructed =>
        /\ \A w \in Workers :
              Returned(w) =>
                  result[w] = (isoweekday(ReferenceDate(w)) \in week_day_num)
        /\ \A w \in Workers :
              (pc[w] \in {"returned", "raised"} /\ ~use_task_logical_date) =>
                  /\ Returned(w)
                  /\ result[w] = (isoweekday(decidedAt[w]) \in week_day_num)
        /\ \A c1, c2 \in Contexts : \A k \in Clock :
              ~use_task_logical_date =>
                  Decide(use_task_logical_date, week_day_num, c1, k)
                    = Decide(use_task_logical_date, week_day_num, c2, k)
        /\ \A c \in Contexts : \A k1, k2 \in Clock :
              use_task_logical_date =>
                  Decide(use_task_logical_date, week_day_num, c, k1)
                    = Decide(use_task_logical_date, week_day_num, c, k2)

C2_Witness ==
    /\ Constructed /\ ~use_task_logical_date
    /\ Returned("w1") /\ Returned("w2")
    /\ context["w1"] = NoLogicalDate
    /\ context["w2"] = WithLogicalDate(DayBefore)
    /\ decidedAt["w1"] = decidedAt["w2"]
    /\ result["w1"] /\ result["w2"]

(* C3: built with the deprecated use_task_execution_day = true, the sensor *)
(* has use_task_logical_date true, its poke outcomes are those of a sensor *)
(* built with use_task_logical_date = true directly, and exactly one       *)
(* deprecation warning was emitted, at construction and not by poke; built *)
(* with use_task_execution_day = false it keeps use_task_logical_date as   *)
(* given and no warning is emitted.                                        *)
C3_DeprecatedAlias ==
    Constructed =>
        LET direct == SensorInit(kwargs.week_day, TRUE, FALSE) IN
        /\ kwargs.use_task_execution_day =>
              /\ use_task_logical_date = TRUE
              /\ warnings = 1
              /\ direct.warned = 0
              /\ \A c \in Contexts : \A k \in Clock :
                    Decide(use_task_logical_date, week_day_num, c, k)
                      = Decide(direct.use_task_logical_date,
                               direct.week_day_num, c, k)
              /\ \A w \in Workers :
                    pc[w] \in {"returned", "raised"} =>
                        LET d == Decide(direct.use_task_logical_date,
                                        direct.week_day_num, context[w],
                                        decidedAt[w])
                        IN  /\ (pc[w] = "raised") = d.raised
                            /\ result[w] = d.value
        /\ ~kwargs.use_task_execution_day =>
              /\ use_task_logical_date = kwargs.use_task_logical_date
              /\ warnings = 0

C3_Witness ==
    /\ Constructed
    /\ kwargs.use_task_execution_day /\ ~kwargs.use_task_logical_date
    /\ warnings = 1
    /\ Returned("w1") /\ result["w1"]
    /\ decidedAt["w1"] > StartDay
    /\ isoweekday(decidedAt["w1"]) \notin week_day_num

(* C4: for an unknown weekday name, an empty set or a value of the wrong   *)
(* type, construction fails with a configuration error: no sensor with an  *)
(* invalid or empty weekday set exists and poke is never called on one.    *)
C4_InvalidSpecFails ==
    /\ (status # "none" /\ kwargs.week_day \in InvalidSpecs) =>
          /\ status = "failed"
          /\ error = "ConfigurationError"
          /\ week_day_num = {}
          /\ pc = Unpoked
    /\ Constructed =>
          /\ week_day \notin InvalidSpecs
          /\ week_day_num # {}
          /\ error = "none"
    /\ (\E w \in Workers : pc[w] # "idle") => Constructed

C4_Witness ==
    /\ status = "failed"
    /\ error = "ConfigurationError"
    /\ kwargs.week_day = NamesSpec({})

(* C5: for a single weekday name in any letter case, a collection of names, *)
(* an enum value or a collection of enum values, construction succeeds and  *)
(* the stored set is exactly the set of ISO numbers of the named days; the  *)
(* members of the stored set of a constructed sensor always lie in 1..7.    *)
C5_CanonicalWeekdaySet ==
    /\ (status # "none" /\ kwargs.week_day \in ValidSpecs) =>
          /\ Constructed
          /\ week_day = kwargs.week_day
          /\ week_day_num = CanonicalNums(kwargs.week_day)
    /\ Constructed => week_day_num \subseteq 1..7

C5_Witness ==
    /\ Constructed
    /\ week_day = NameSpec(friday)
    /\ week_day_num = {5}
    /\ \E w \in Workers : Returned(w)

(* C6 as stated: once the sensor is constructed, poke never raises, also   *)
(* not in logical-date mode on a context without a logical_date entry.     *)
C6_PokeNeverRaises ==
    \A w \in Workers : pc[w] # "raised"

(* C6 as amended: a poke call raises exactly when the sensor is in         *)
(* logical-date mode and the context has no logical_date entry; in every   *)
(* other case it returns a boolean.                                        *)
C6_PokeRaisesOnlyWithoutLogicalDate ==
    \A w \in Workers :
        pc[w] \in {"returned", "raised"} =>
            /\ (pc[w] = "raised")
                  = (use_task_logical_date /\ ~context[w].has_logical_date)
            /\ result[w] \in BOOLEAN
            /\ pc[w] = "raised" => result[w] = FALSE

C6_Witness ==
    /\ Constructed /\ use_task_logical_date
    /\ Returned("w1") /\ context["w1"].has_logical_date
    /\ pc["w2"] = "raised" /\ ~context["w2"].has_logical_date

(* C7: poke leaves the sensor unchanged: week_day, use_task_logical_date   *)
(* and the stored weekday set keep the values of construction through any  *)
(* interleaving of the workers' calls, and a step of one worker's call     *)
(* changes no other worker's context or result.                            *)
C7_PokeLeavesSensorUnchanged ==
    [][ Constructed =>
          /\ sensor' = sensor
          /\ warnings' = warnings
          /\ \A w \in Workers :
                pc'[w] = pc[w] =>
                    /\ context'[w] = context[w]
                    /\ result'[w] = result[w]
                    /\ logged'[w] = logged[w] ]_vars

C7_Witness ==
    /\ Constructed
    /\ Returned("w1") /\ Returned("w2")
    /\ loggedAt["w1"] < loggedAt["w2"]
    /\ loggedAt["w2"] < decidedAt["w1"]
    /\ week_day_num = {6, 7}

(* C8: two poke calls on the sensor with the same reference date return    *)
(* the same boolean; in logical-date mode that is so for the same logical  *)
(* date even when the clock advanced between the calls.                    *)
C8_SameDateSameResult ==
    \A w1, w2 \in Workers :
        (/\ Returned(w1) /\ Returned(w2)
         /\ ReferenceDate(w1) = ReferenceDate(w2))
            => result[w1] = result[w2]

C8_Witness ==
    /\ Constructed /\ use_task_logical_date
    /\ Returned("w1") /\ Returned("w2")
    /\ context["w1"] = context["w2"]
    /\ decidedAt["w1"] = StartDay
    /\ decidedAt["w2"] = StartDay + 2
    /\ week_day_num = {6, 7}
    /\ result["w1"] /\ result["w2"]

\* The first day from the start of the run whose weekday is in the set.
FirstMatchDay ==
    CHOOSE d \in StartDay .. (StartDay + 6) :
        /\ isoweekday(d) \in week_day_num
        /\ \A e \in StartDay .. (d - 1) : isoweekday(e) \notin week_day_num

C10_LogNamesDecisionDay ==
    \A w \in Workers :
        Returned(w) => logged[w] = WeekDayName(isoweekday(ReferenceDate(w)))

(* C10 as amended: in both modes the weekday name in a call's log line is  *)
(* the weekday of the clock reading made for the log line; it is the       *)
(* weekday the call decides on only in system-clock mode with both clock   *)
(* readings on the same day.                                               *)
C10_LogNamesClockDay ==
    \A w \in Workers :
        pc[w] # "idle" =>
            /\ logged[w] = WeekDayName(isoweekday(loggedAt[w]))
            /\ loggedAt[w] = ymd2ord(2018, 12, 22)
                  => logged[w] = <<"S","A","T","U","R","D","A","Y">>
            /\ (Returned(w) /\ ~use_task_logical_date
                /\ loggedAt[w] = decidedAt[w])
                  => logged[w] = WeekDayName(isoweekday(ReferenceDate(w)))

C10_Witness ==
    /\ Constructed /\ use_task_logical_date
    /\ Returned("w1")
    /\ context["w1"] = WithLogicalDate(DayBefore)
    /\ loggedAt["w1"] = StartDay
    /\ logged["w1"] = <<"S","A","T","U","R","D","A","Y">>

====
